---- MODULE Spec2Model ----
(***************************************************************************)
(* Model of StdioKernelTransport (stdioKernelTransport.ts): start-up       *)
(* (argument negotiation, port probe, spawn), the observer set, the line   *)
(* handler with its reverse loop over the live subscriber array, and the   *)
(* one-time readiness promise.                                             *)
(***************************************************************************)
EXTENDS Integers, Sequences, FiniteSets, TLC

VARIABLES
    pc,            \* position of the async promise executor (lines 36-68)
    args,          \* processStart.args
    newArgs,       \* local newArgs of configureHttpArgs / args passed to spawn
    index,         \* local index of configureHttpArgs (0-based, -1 = absent)
    port,          \* local port of findFreePort (Undefined until listening)
    httpPort,      \* this.httpPort
    childProcess,  \* this.childProcess (Null or a process handle)
    diag,          \* lines appended to diagnosticChannel
    subscribers,   \* this.subscribers, entries [cb, reg] (reg is a ghost id)
    handles,       \* disposable handles returned to callers so far
    nextReg,       \* ghost: id given to the next registration
    readyPromise,  \* "pending" or "resolved"
    resolveCalls,  \* ghost: number of times resolve() was invoked
    readySeen,     \* ghost: handleLine has decoded a ready envelope
    hl,            \* position inside handleLine: "idle", "loop", "cb", "returned"
    i,             \* loop variable of handleLine (1-based; source is 0-based)
    envelope,      \* envelope of the line being (or last) handled
    cur,           \* subscriber entry whose callback is running
    startSubs,     \* ghost: subscribers when the current line started
    calls,         \* ghost: notifications made for the current line
    ops,           \* ghost: dispose/subscribe calls made by callbacks this line
    threw,         \* ghost: outcome of the last handleLine ("no" or an error)
    stdin,         \* chunks passed to childProcess.stdin.write, in order
    submitted,     \* ghost: commands whose submitCommand promise resolved
    api,           \* ghost: the last submitCommand / dispose call and its outcome
    exit           \* Null, or the arguments of the process "exit" event

vars == <<pc, args, newArgs, index, port, httpPort, childProcess, diag,
          subscribers, handles, nextReg, readyPromise, resolveCalls, readySeen,
          hl, i, envelope, cur, startSubs, calls, ops, threw,
          stdin, submitted, api, exit>>

startupVars == <<pc, args, newArgs, index, port, httpPort, childProcess, diag>>
lineVars == <<hl, i, envelope, cur, startSubs, calls, ops, threw>>
readyVars == <<readyPromise, resolveCalls, readySeen>>
lifeVars == <<stdin, submitted, api, exit>>

----------------------------------------------------------------------------
(* Bounds *)

MaxArgs == 3        \* longest processStart.args
MaxRegs == 3        \* registrations made by callers of subscribeToKernelEvents
MaxDisposals == 2   \* dispose calls made by callbacks during one line
MaxDiag == 2        \* lines kept in the diagnostic sink

----------------------------------------------------------------------------
(* Strings are sequences of one-character strings, so that parseInt and    *)
(* template formatting are computed rather than assumed.                   *)

HttpPortFlag == <<"-","-","h","t","t","p","-","p","o","r","t">>
HttpPortRangeFlag ==
    <<"-","-","h","t","t","p","-","p","o","r","t","-","r","a","n","g","e">>
VerboseFlag == <<"-","-","v","e","r","b","o","s","e">>

Tokens == {HttpPortFlag, HttpPortRangeFlag, VerboseFlag, <<"8","0">>, <<"9","x">>}

RECURSIVE SeqsUpTo(_, _)
SeqsUpTo(S, n) ==
    IF n = 0 THEN {<< >>}
    ELSE LET shorter == SeqsUpTo(S, n - 1)
         IN shorter \cup {Append(s, t) : s \in {x \in shorter : Len(x) = n - 1}, t \in S}

ArgLists == SeqsUpTo(Tokens, MaxArgs)

\* ports the operating system may assign to the probe socket
FreePorts == {49152, 49153}

\* JavaScript values that are not strings
Num(n) == [num |-> n]
NaN == [nan |-> TRUE]
Undefined == [undefined |-> TRUE]
Null == [null |-> TRUE]

Digits == <<"0","1","2","3","4","5","6","7","8","9">>
HexLetters == <<"a","b","c","d","e","f">>
HexUpper == <<"A","B","C","D","E","F">>
WhiteSpace == {" ", "\t", "\n", "\r"}

\* value of character c in the given radix, or -1
DigitVal(c, radix) ==
    IF \E d \in 1..10 : Digits[d] = c /\ d - 1 < radix
    THEN (CHOOSE d \in 1..10 : Digits[d] = c) - 1
    ELSE IF radix = 16 /\ \E d \in 1..6 : HexLetters[d] = c \/ HexUpper[d] = c
    THEN 9 + (CHOOSE d \in 1..6 : HexLetters[d] = c \/ HexUpper[d] = c)
    ELSE -1

RECURSIVE SkipWhite(_)
SkipWhite(s) ==
    IF s # << >> /\ Head(s) \in WhiteSpace THEN SkipWhite(Tail(s)) ELSE s

\* longest prefix of digits of s, accumulated onto acc; seen = a digit was read
RECURSIVE ParseDigits(_, _, _, _)
ParseDigits(s, radix, acc, seen) ==
    IF s # << >> /\ DigitVal(Head(s), radix) >= 0
    THEN ParseDigits(Tail(s), radix, acc * radix + DigitVal(Head(s), radix), TRUE)
    ELSE IF seen THEN Num(acc) ELSE NaN

\* parseInt(x) with no radix argument, x already converted to a string
ParseInt(x) ==
         LET t == SkipWhite(x)
             neg == t # << >> /\ Head(t) = "-"
             u == IF t # << >> /\ Head(t) \in {"-", "+"} THEN Tail(t) ELSE t
             hex == Len(u) >= 2 /\ u[1] = "0" /\ u[2] \in {"x", "X"}
             v == IF hex THEN ParseDigits(Tail(Tail(u)), 16, 0, FALSE)
                         ELSE ParseDigits(u, 10, 0, FALSE)
         IN IF v = NaN THEN NaN ELSE IF neg THEN Num(0 - v.num) ELSE v

\* `${n}` for a non-negative integer n
RECURSIVE NumberToString(_)
NumberToString(n) ==
    IF n < 10 THEN <<Digits[n + 1]>>
    ELSE Append(NumberToString(n \div 10), Digits[(n % 10) + 1])

\* Array.prototype.indexOf: 0-based index of the first element equal to x, or -1
IndexOf(arr, x) ==
    IF \E k \in 1..Len(arr) : arr[k] = x
    THEN (CHOOSE k \in 1..Len(arr) : arr[k] = x /\ \A j \in 1..(k - 1) : arr[j] # x) - 1
    ELSE -1

\* variant of ToStringAt that reads the element one place too early
ToStringAtOffByOne(arr, idx) ==
    IF idx - 1 >= 0 /\ idx - 1 < Len(arr) THEN arr[idx]
    ELSE <<"u","n","d","e","f","i","n","e","d">>

\* String(arr[idx]) for a 0-based idx: the element, or "undefined" past the end
ToStringAt(arr, idx) ==
    IF idx >= 0 /\ idx < Len(arr) THEN arr[idx + 1]
    ELSE <<"u","n","d","e","f","i","n","e","d">>

\* arr[idx] = v for a 0-based idx <= arr.length (assigning at length appends)
ArrSet(arr, idx, v) ==
    IF idx < Len(arr) THEN [arr EXCEPT ![idx + 1] = v] ELSE Append(arr, v)

DeprecationLine == <<"the --http-port-range command option is not supported in vscode extension, remove if from settings. The kernel will start with --http-port option isntead.">>

Pids == {101}

\* appendLine on the diagnostic sink
AppendLine(d, line) == Append(d, line)

----------------------------------------------------------------------------
(* Start-up: the promise executor of the constructor                       *)

\* variant of RewriteArgs whose in-place branch forgets to write the flag
RewriteArgsValueOnly(a, idx, n) ==
    IF idx > 0
    THEN ArrSet(a, idx + 1, NumberToString(n))
    ELSE Append(Append(a, HttpPortFlag), NumberToString(n))

\* variant of RewriteArgs whose append branch pushes the value before the flag
RewriteArgsSwapped(a, idx, n) ==
    IF idx > 0
    THEN ArrSet(ArrSet(a, idx, HttpPortFlag), idx + 1, NumberToString(n))
    ELSE Append(Append(a, NumberToString(n)), HttpPortFlag)

\* configureHttpArgs lines 78-85: the rewrite once the port n is known
RewriteArgs(a, idx, n) ==
    IF idx > 0
    THEN ArrSet(ArrSet(a, idx, HttpPortFlag), idx + 1, NumberToString(n))
    ELSE Append(Append(a, HttpPortFlag), NumberToString(n))

\* configureHttpArgs up to its await (or to its return on the explicit branch)
ConfigureHttpArgs ==
    /\ pc = "new" /\ hl = "idle"
    /\ LET copy == args
           idx == IndexOf(copy, HttpPortFlag)
       IN IF idx < 0
          THEN /\ index' = IndexOf(copy, HttpPortRangeFlag)
               /\ newArgs' = copy
               /\ pc' = "listen"
               /\ UNCHANGED httpPort
          ELSE /\ index' = idx
               /\ newArgs' = copy
               /\ httpPort' = ParseInt(ToStringAt(copy, idx + 1))
               /\ pc' = "configured"
    /\ UNCHANGED <<args, port, childProcess, diag, subscribers, handles, nextReg,
                   readyVars, lineVars>>
    /\ UNCHANGED lifeVars

\* findFreePort: the "listening" event; the OS has assigned port p
FindFreePortListening ==
    /\ pc = "listen" /\ hl = "idle"
    /\ \E p \in FreePorts : port' = Num(p)
    /\ pc' = "closing"
    /\ UNCHANGED <<args, newArgs, index, httpPort, childProcess, diag, subscribers,
                   handles, nextReg, readyVars, lineVars>>
    /\ UNCHANGED lifeVars

\* findFreePort: the "close" event, then the rest of configureHttpArgs
FindFreePortClose ==
    /\ pc = "closing" /\ hl = "idle"
    /\ IF port = Undefined
       THEN /\ pc' = "failed"
            /\ UNCHANGED <<httpPort, newArgs, diag>>
       ELSE /\ httpPort' = port
            /\ diag' = IF index > 0 THEN AppendLine(diag, DeprecationLine) ELSE diag
            /\ newArgs' = RewriteArgs(newArgs, index, port.num)
            /\ pc' = "configured"
    /\ UNCHANGED <<args, index, port, childProcess, subscribers, handles, nextReg,
                   readyVars, lineVars>>
    /\ UNCHANGED lifeVars

\* findFreePort: the "error" event rejects; the executor stops and never
\* calls resolve or reject of readyPromise
FindFreePortError ==
    /\ pc = "listen" /\ hl = "idle"
    /\ pc' = "failed"
    /\ UNCHANGED <<args, newArgs, index, port, httpPort, childProcess, diag,
                   subscribers, handles, nextReg, readyVars, lineVars>>
    /\ UNCHANGED lifeVars

ReadyEntry == [cb |-> "ready", reg |-> 0]

\* subscribers.push(observer)
Push(subs, entry) == Append(subs, entry)

\* variant of ArgsAwaited in which a failed port probe does not stop start-up
ArgsAwaitedOrFailed(p) == p \in {"configured", "failed"}

\* line 37: the executor goes on only when configureHttpArgs has returned
ArgsAwaited(p) == p = "configured"

\* lines 40-67: spawn, wire the streams, register the readiness listener
Spawn ==
    /\ ArgsAwaited(pc) /\ hl = "idle"
    /\ \E p \in Pids :
          /\ childProcess' = [pid |-> p, killed |-> FALSE]
          /\ diag' = AppendLine(diag, <<"Kernel started with pid ", p, ".">>)
    /\ subscribers' = Push(subscribers, ReadyEntry)
    /\ pc' = "spawned"
    /\ UNCHANGED <<args, newArgs, index, port, httpPort, handles, nextReg,
                   readyVars, lineVars>>
    /\ UNCHANGED lifeVars

NextStartup ==
    \/ ConfigureHttpArgs
    \/ FindFreePortListening
    \/ FindFreePortClose
    \/ FindFreePortError
    \/ Spawn

InitCommon ==
    /\ pc = "new"
    /\ newArgs = << >>
    /\ index = -1
    /\ port = Undefined
    /\ httpPort = Num(0)
    /\ childProcess = Null
    /\ diag = << >>
    /\ subscribers = << >>
    /\ handles = {}
    /\ nextReg = 1
    /\ readyPromise = "pending"
    /\ resolveCalls = 0
    /\ readySeen = FALSE
    /\ hl = "idle"
    /\ i = 0
    /\ envelope = Undefined
    /\ cur = Undefined
    /\ startSubs = << >>
    /\ calls = << >>
    /\ ops = << >>
    /\ threw = "no"
    /\ stdin = << >>
    /\ submitted = << >>
    /\ api = Null
    /\ exit = Null

----------------------------------------------------------------------------
(* Events, lines and the observer set                                      *)

KernelReadyType == "KernelReady"
DiagnosticLogEntryProducedType == "DiagnosticLogEntryProduced"

LineReady == "{\"eventType\":\"KernelReady\",\"event\":{}}"
LineDiag == "{\"eventType\":\"DiagnosticLogEntryProduced\",\"event\":{\"message\":\"boot ok\"}}"
LineOther == "{\"eventType\":\"CommandHandled\",\"event\":{}}"
LineBad == "{\"eventType\":"

AllLines == {LineReady, LineDiag, LineOther, LineBad}

\* lines of the full specification; diagnostic entries, which only add an
\* append to the sink, are left to the specifications that name AllLines
Lines == {LineReady, LineOther, LineBad}

\* parse(line) of ./utilities: does the JSON decoder reject the line
ParseFails(line) == line = LineBad

\* parse(line) of ./utilities on a line it accepts
Parse(line) ==
    CASE line = LineReady -> [eventType |-> KernelReadyType, event |-> << >>]
      [] line = LineDiag -> [eventType |-> DiagnosticLogEntryProducedType,
                             event |-> [message |-> "boot ok"]]
      [] line = LineOther -> [eventType |-> "CommandHandled", event |-> << >>]

\* the callbacks callers register; "ready" is the constructor's own listener
UserCbs == {"a", "b"}

\* callbacks a caller may pass next: they are named in the order of their
\* first registration, so "a" is the first one ever registered
NextCbs(hs) == IF hs = {} THEN {"a"} ELSE UserCbs

\* subscribers.indexOf(observer): entries are compared by callback identity
IndexOfObserver(subs, observer) ==
    IF \E k \in 1..Len(subs) : subs[k].cb = observer
    THEN (CHOOSE k \in 1..Len(subs) :
             subs[k].cb = observer /\ \A j \in 1..(k - 1) : subs[j].cb # observer) - 1
    ELSE -1

\* variant of Splice that drops everything from k on, as splice(k) would
SpliceToEnd(subs, k) == SubSeq(subs, 1, k)

\* subs.splice(k, 1) for a 0-based k
Splice(subs, k) == SubSeq(subs, 1, k) \o SubSeq(subs, k + 2, Len(subs))

\* the dispose closure returned by subscribeToKernelEvents (lines 135-140)
Dispose(subs, h) ==
    LET k == IndexOfObserver(subs, h.cb)
    IN IF k >= 0 THEN Splice(subs, k) ELSE subs

\* ghost: the registration id of the entry Dispose(subs, h) removes, or -1
Removed(subs, h) ==
    LET k == IndexOfObserver(subs, h.cb)
    IN IF k >= 0 THEN subs[k + 1].reg ELSE -1

\* subscribeToKernelEvents called by a client outside any notification
SubscribeToKernelEvents(c) ==
    /\ pc # "new" /\ hl = "idle"
    /\ nextReg <= MaxRegs
    /\ subscribers' = Push(subscribers, [cb |-> c, reg |-> nextReg])
    /\ handles' = handles \cup {[cb |-> c, reg |-> nextReg]}
    /\ nextReg' = nextReg + 1
    /\ UNCHANGED <<startupVars, readyVars, lineVars>>
    /\ UNCHANGED lifeVars

\* a client disposes a handle outside any notification
DisposeHandle(h) ==
    /\ hl = "idle"
    /\ subscribers' = Dispose(subscribers, h)
    /\ UNCHANGED <<startupVars, handles, nextReg, readyVars, lineVars>>
    /\ UNCHANGED lifeVars

\* variant of LoopStart that begins one entry below the last
LoopStartBelowLast(subs) == Len(subs) - 1

\* first value of the loop variable, subscribers.length - 1 (here 1-based)
LoopStart(subs) == Len(subs)

\* variant of LogEntry whose switch has a default branch that logs as well
LogEntryAlways(d, env) ==
    IF env.eventType = DiagnosticLogEntryProducedType
    THEN AppendLine(d, <<env.event.message>>)
    ELSE AppendLine(d, <<"undefined">>)

\* lines 121-125: the switch on envelope.eventType
LogEntry(d, env) ==
    IF env.eventType = DiagnosticLogEntryProducedType
    THEN AppendLine(d, <<env.event.message>>)
    ELSE d

\* variant of Thrown in which a decode failure is caught and the line dropped
ThrownSwallowed(line) == "no"

\* line 119 stands outside any try block: what parse throws leaves handleLine
Thrown(line) == IF ParseFails(line) THEN "SyntaxError" ELSE "no"

\* handleLine lines 119-125 and the loop initialisation of line 127
HandleLine(line) ==
    /\ pc = "spawned" /\ hl = "idle"
    /\ startSubs' = subscribers
    /\ calls' = << >>
    /\ ops' = << >>
    /\ cur' = Undefined
    /\ IF ParseFails(line)
       THEN /\ threw' = Thrown(line)
            /\ envelope' = Undefined
            /\ hl' = "returned"
            /\ UNCHANGED <<diag, i, readySeen>>
       ELSE LET env == Parse(line)
            IN /\ env.eventType = DiagnosticLogEntryProducedType => Len(diag) < MaxDiag
               /\ envelope' = env
               /\ diag' = LogEntry(diag, env)
               /\ readySeen' = (readySeen \/ env.eventType = KernelReadyType)
               /\ i' = LoopStart(subscribers)
               /\ hl' = IF LoopStart(subscribers) >= 1 THEN "loop" ELSE "returned"
               /\ threw' = "no"
    /\ UNCHANGED <<pc, args, newArgs, index, port, httpPort, childProcess,
                   subscribers, handles, nextReg, readyPromise, resolveCalls>>
    /\ UNCHANGED lifeVars

\* variant of AfterCall whose loop condition is i > 0
AfterCallSkipFirst(k) == IF k - 1 >= 2 THEN "loop" ELSE "returned"

\* loop control after the callback at position i has returned (i--, i >= 0)
AfterCall(k) == IF k - 1 >= 1 THEN "loop" ELSE "returned"

\* handleLine has returned or thrown into the line reader's callback (line 31);
\* control goes back to the event loop and the per-line history is dropped
HandleLineReturn ==
    /\ hl = "returned"
    /\ hl' = "idle"
    /\ i' = 0
    /\ envelope' = Undefined
    /\ cur' = Undefined
    /\ startSubs' = << >>
    /\ calls' = << >>
    /\ ops' = << >>
    /\ threw' = "no"
    /\ UNCHANGED <<startupVars, subscribers, handles, nextReg, readyVars>>
    /\ UNCHANGED lifeVars

\* line 128 when subscribers[i] is no longer there: calling undefined throws
InvokeUndefined ==
    /\ hl = "loop"
    /\ i > Len(subscribers)
    /\ threw' = "TypeError"
    /\ hl' = "returned"
    /\ UNCHANGED <<startupVars, subscribers, handles, nextReg, readyVars, i,
                   envelope, cur, startSubs, calls, ops>>
    /\ UNCHANGED lifeVars

\* variant of ReadySubscriberDispose in which the listener stays registered
ReadySubscriberKeep(subs) == subs

\* the body of the readiness listener (lines 62-67) for a ready envelope:
\* readySubscriber.dispose()
ReadySubscriberDispose(subs) == Dispose(subs, ReadyEntry)

\* line 128 calling the readiness listener
InvokeReadySubscriber ==
    /\ hl = "loop"
    /\ i <= Len(subscribers)
    /\ subscribers[i].cb = "ready"
    /\ calls' = Append(calls, [cb |-> "ready", reg |-> subscribers[i].reg, env |-> envelope])
    /\ IF envelope.eventType = KernelReadyType
       THEN /\ subscribers' = ReadySubscriberDispose(subscribers)
            /\ readyPromise' = "resolved"
            /\ resolveCalls' = IF resolveCalls < 2 THEN resolveCalls + 1 ELSE 2
       ELSE UNCHANGED <<subscribers, readyPromise, resolveCalls>>
    /\ UNCHANGED readySeen
    /\ i' = i - 1
    /\ hl' = AfterCall(i)
    /\ UNCHANGED <<startupVars, handles, nextReg, envelope, cur, startSubs, ops, threw>>
    /\ UNCHANGED lifeVars

\* line 128 calling a client's callback; it runs until CallbackReturn
InvokeObserver ==
    /\ hl = "loop"
    /\ i <= Len(subscribers)
    /\ subscribers[i].cb \in UserCbs
    /\ calls' = Append(calls, [cb |-> subscribers[i].cb, reg |-> subscribers[i].reg,
                               env |-> envelope])
    /\ cur' = subscribers[i]
    /\ hl' = "cb"
    /\ UNCHANGED <<startupVars, subscribers, handles, nextReg, readyVars, i,
                   envelope, startSubs, ops, threw>>
    /\ UNCHANGED lifeVars

\* ghost: number of dispose calls logged in o
Disposals(o) == Cardinality({k \in 1..Len(o) : o[k].kind = "dispose"})

\* the running callback disposes a handle
CallbackDispose(h) ==
    /\ hl = "cb"
    /\ Disposals(ops) < MaxDisposals
    /\ subscribers' = Dispose(subscribers, h)
    /\ ops' = Append(ops, [by |-> cur, kind |-> "dispose", h |-> h,
                           removed |-> Removed(subscribers, h),
                           present |-> \E k \in 1..Len(subscribers) :
                                          subscribers[k].reg = h.reg])
    /\ UNCHANGED <<startupVars, handles, nextReg, readyVars,
                   hl, i, envelope, cur, startSubs, calls, threw>>
    /\ UNCHANGED lifeVars

\* the running callback registers an observer
CallbackSubscribe(c) ==
    /\ hl = "cb"
    /\ nextReg <= MaxRegs
    /\ subscribers' = Push(subscribers, [cb |-> c, reg |-> nextReg])
    /\ handles' = handles \cup {[cb |-> c, reg |-> nextReg]}
    /\ nextReg' = nextReg + 1
    /\ ops' = Append(ops, [by |-> cur, kind |-> "subscribe",
                           h |-> [cb |-> c, reg |-> nextReg], removed |-> -1,
                           present |-> FALSE])
    /\ UNCHANGED <<startupVars, readyVars,
                   hl, i, envelope, cur, startSubs, calls, threw>>
    /\ UNCHANGED lifeVars

\* the running callback returns to the loop of handleLine
CallbackReturn ==
    /\ hl = "cb"
    /\ i' = i - 1
    /\ hl' = AfterCall(i)
    /\ cur' = Undefined
    /\ UNCHANGED <<startupVars, subscribers, handles, nextReg, readyVars, envelope,
                   startSubs, calls, ops, threw>>
    /\ UNCHANGED lifeVars

----------------------------------------------------------------------------
(* Commands, disposal of the transport, and the subprocess's own events    *)

MaxSubmits == 2

\* isNotNull (lines 114-116): obj !== undefined, which null passes
IsNotNull(obj) == obj # Undefined

Str(s) == [str |-> s]

\* JSON text of a command payload, given as its <<key, value>> members
RECURSIVE StringifyMembers(_)
StringifyMembers(ms) ==
    IF ms = << >> THEN ""
    ELSE "\"" \o ms[1][1] \o "\":\"" \o ms[1][2] \o "\""
         \o (IF Len(ms) > 1 THEN "," ELSE "") \o StringifyMembers(Tail(ms))

\* stringify(submit) of ./utilities for a submission object
Stringify(submit) ==
    "{\"token\":\"" \o submit.token \o "\",\"commandType\":\"" \o submit.commandType
    \o "\",\"command\":{" \o StringifyMembers(submit.command) \o "}}"

\* the arguments callers pass to submitCommand
Commands ==
    { [token |-> "tok-1", commandType |-> "Submit", command |-> << >>],
      [token |-> "tok-2", commandType |-> "Submit", command |-> << <<"code", "1">> >>] }

\* lines 146-150: the submission object built from the three arguments
Submission(command, commandType, token) ==
    [token |-> token, commandType |-> commandType, command |-> command]

\* ghost: a bit that tells one call of the interface from the one before it
NextCall(last) == IF last = Null THEN 0 ELSE 1 - last.n

\* variant of WriteLine without the second write
WriteLineNoNewline(s, str) == Append(s, str)

\* lines 154-155: stdin.write(str); stdin.write('\n')
WriteLine(s, str) == Append(Append(s, str), "\n")

\* submitCommand (lines 144-163); the executor runs inside the call.  With
\* childProcess null the test of line 153 passes and reading .stdin of null
\* throws inside the executor, which rejects the promise with that error.
SubmitCommand(cmd) ==
    /\ pc # "new" /\ hl = "idle"
    /\ Len(submitted) < MaxSubmits
    /\ LET submit == Submission(cmd.command, cmd.commandType, cmd.token)
           str == Stringify(submit)
           call == [op |-> "submitCommand", n |-> NextCall(api)]
       IN IF IsNotNull(childProcess)
          THEN IF childProcess = Null
               THEN /\ api' = call @@ [result |-> "rejected", reason |-> Str("TypeError")]
                    /\ UNCHANGED <<stdin, submitted>>
               ELSE /\ stdin' = WriteLine(stdin, str)
                    /\ submitted' = Append(submitted, cmd)
                    /\ api' = call @@ [result |-> "resolved", reason |-> Undefined]
          ELSE /\ api' = call @@ [result |-> "rejected", reason |-> Undefined]
               /\ UNCHANGED <<stdin, submitted>>
    /\ UNCHANGED <<startupVars, subscribers, handles, nextReg, readyVars, lineVars, exit>>

\* variant of Kill that forgets the process
KillAndForget(proc, exited) == Null

\* childProcess.kill() of line 171: the signal is sent unless the process
\* has already ended
Kill(proc, exited) == [proc EXCEPT !.killed = @ \/ ~exited]

\* dispose (lines 169-173); with childProcess null the test of line 170
\* passes and null.kill() throws
DisposeTransport ==
    /\ pc # "new" /\ hl = "idle"
    /\ LET call == [op |-> "dispose", n |-> NextCall(api)]
       IN IF IsNotNull(childProcess)
          THEN IF childProcess = Null
               THEN /\ api' = call @@ [result |-> "threw", reason |-> Str("TypeError")]
                    /\ UNCHANGED childProcess
               ELSE /\ childProcess' = Kill(childProcess, exit # Null)
                    /\ api' = call @@ [result |-> "returned", reason |-> Undefined]
          ELSE /\ api' = call @@ [result |-> "returned", reason |-> Undefined]
               /\ UNCHANGED childProcess
    /\ UNCHANGED <<pc, args, newArgs, index, port, httpPort, diag, subscribers, handles,
                   nextReg, readyVars, lineVars, stdin, submitted, exit>>

\* the (code, signal) pairs the "exit" event reports
ExitArgs == {<<Num(0), Null>>, <<Num(1), Null>>, <<Null, Str("SIGTERM")>>}

\* variant of ExitMessage that leaves the exit code out
ExitMessageNoCode(pid, code, signal) ==
    <<"Kernel pid ", pid, " ended", << >>,
      IF signal # Null THEN <<" with signal ", signal.str>> ELSE << >> >>

\* lines 47-53: the message of the exit handler
ExitMessage(pid, code, signal) ==
    <<"Kernel pid ", pid, " ended",
      IF code # Null /\ code # Num(0) THEN <<" with code ", code.num>> ELSE << >>,
      IF signal # Null THEN <<" with signal ", signal.str>> ELSE << >> >>

\* the "exit" handler (lines 46-56).  The event is emitted once; the stdio
\* streams may still deliver buffered data afterwards.
ProcessExit(code, signal) ==
    /\ pc = "spawned" /\ hl = "idle"
    /\ exit = Null
    /\ exit' = [code |-> code, signal |-> signal, ready |-> readySeen]
    /\ diag' = AppendLine(diag, ExitMessage(childProcess.pid, code, signal))
    /\ UNCHANGED <<pc, args, newArgs, index, port, httpPort, childProcess, subscribers,
                   handles, nextReg, readyVars, lineVars, stdin, submitted, api>>

\* the stderr "data" handler (line 59)
StderrData(data) ==
    /\ pc = "spawned" /\ hl = "idle"
    /\ Len(diag) < MaxDiag
    /\ diag' = AppendLine(diag, <<"kernel (", childProcess.pid, ") stderr: ", data>>)
    /\ UNCHANGED <<pc, args, newArgs, index, port, httpPort, childProcess, subscribers,
                   handles, nextReg, readyVars, lineVars, lifeVars>>

Next ==
    \/ ConfigureHttpArgs
    \/ Spawn
    \/ \E c \in NextCbs(handles) : SubscribeToKernelEvents(c)
    \/ \E h \in handles : DisposeHandle(h)
    \/ \E line \in Lines : HandleLine(line)
    \/ InvokeUndefined
    \/ InvokeReadySubscriber
    \/ InvokeObserver
    \/ \E h \in handles : CallbackDispose(h)
    \/ \E c \in NextCbs(handles) : CallbackSubscribe(c)
    \/ CallbackReturn
    \/ HandleLineReturn

\* The full specification starts the transport with an explicit port, so
\* that start-up is configureHttpArgs followed by the spawn step; start-up
\* for every argument list, with the port probe, is SpecArgs.
StartArgs == {<<HttpPortFlag, <<"8","0">>>>}

Init == args \in StartArgs /\ InitCommon

Spec == Init /\ [][Next]_vars

InitArgs == args \in ArgLists /\ InitCommon

SpecArgs == InitArgs /\ [][NextStartup]_vars

\* The life-cycle specification: start-up through the port probe, one client
\* observer that only receives, every kind of line, commands, disposal of
\* the transport and the subprocess's exit and stderr events.
NextLife ==
    \/ ConfigureHttpArgs
    \/ FindFreePortListening
    \/ FindFreePortClose
    \/ FindFreePortError
    \/ Spawn
    \/ handles = {} /\ \E c \in NextCbs(handles) : SubscribeToKernelEvents(c)
    \/ \E line \in AllLines : HandleLine(line)
    \/ InvokeReadySubscriber
    \/ InvokeObserver
    \/ CallbackReturn
    \/ HandleLineReturn
    \/ \E cmd \in Commands : SubmitCommand(cmd)
    \/ DisposeTransport
    \/ \E e \in ExitArgs : ProcessExit(e[1], e[2])
    \/ StderrData("warn")

LifeArgs == {<<VerboseFlag>>}

InitLife == args \in LifeArgs /\ InitCommon

SpecLife == InitLife /\ [][NextLife]_vars

----------------------------------------------------------------------------
(* Properties of readiness and of notification.  Per-line properties are   *)
(* read when handleLine has returned (hl = "returned").                    *)

Regs(subs) == {subs[k].reg : k \in 1..Len(subs)}
HasReady(subs) == \E k \in 1..Len(subs) : subs[k].cb = "ready"
CallsTo(reg) == Cardinality({k \in 1..Len(calls) : calls[k].reg = reg})
Decoded == hl = "returned" /\ threw # "SyntaxError"

\* no callback is registered twice in subs
DistinctCallbacks(subs) ==
    \A j, k \in 1..Len(subs) : j # k => subs[j].cb # subs[k].cb

\* callbacks made only dispose calls during the line
OnlyDisposals == \A k \in 1..Len(ops) : ops[k].kind = "dispose"

\* C1: resolve() of the readiness promise is called at most once; the
\* promise is resolved only after handleLine decoded a ready envelope; and
\* once the readiness listener has fired it is not in the observer set.
C1_ResolvedOnce ==
    /\ resolveCalls <= 1
    /\ (readyPromise = "resolved") <=> (resolveCalls = 1)
    /\ readyPromise = "resolved" => readySeen
    /\ resolveCalls >= 1 => ~HasReady(subscribers)

\* C1 witness: a further ready envelope was handled after the promise had
\* been resolved, and the listener was not called for it
C1_Witness ==
    /\ Decoded
    /\ envelope.eventType = KernelReadyType
    /\ \A k \in 1..Len(calls) : calls[k].cb # "ready"
    /\ Len(calls) >= 1
    /\ readyPromise = "resolved"
    /\ resolveCalls = 1

\* C2 as stated: lines are handled only once the process is spawned and the
\* readiness listener registered, the listener stays registered while the
\* promise is pending, and a ready envelope handled by handleLine leaves the
\* promise resolved when the handling of that line ends.  The last part is
\* stated for observers with pairwise distinct callbacks whose callbacks
\* only dispose handles, the interleavings the claim names.
C2_NoReadyMissed ==
    /\ hl # "idle" => pc = "spawned"
    /\ (pc = "spawned" /\ readyPromise = "pending") => HasReady(subscribers)
    /\ (/\ Decoded
        /\ envelope.eventType = KernelReadyType
        /\ DistinctCallbacks(startSubs)
        /\ OnlyDisposals)
       => readyPromise = "resolved"

\* C3: when no callback subscribes or disposes during the line, a decoded
\* line yields exactly one notification per observer registered when the
\* line arrived, each with the envelope decoded from that line.
C3_OnePerObserver ==
    (Decoded /\ ops = << >>)
    => /\ threw = "no"
       /\ Len(calls) = Len(startSubs)
       /\ \A k \in 1..Len(startSubs) :
             Cardinality({j \in 1..Len(calls) :
                 calls[j].reg = startSubs[k].reg /\ calls[j].cb = startSubs[k].cb}) = 1
       /\ \E line \in AllLines :
             /\ ~ParseFails(line)
             /\ envelope = Parse(line)
             /\ \A j \in 1..Len(calls) : calls[j].env = Parse(line)

\* C3 witness: three observers were registered and all three were notified
C3_Witness ==
    /\ Decoded
    /\ ops = << >>
    /\ Len(startSubs) = 3
    /\ Len(calls) = 3

\* C4 as stated: when callbacks dispose handles during the line, no observer
\* is notified twice for that line and every observer that is still
\* registered is notified exactly once.  Stated for observers with pairwise
\* distinct callbacks, where every handle removes its own registration.
C4_SafeRemoval ==
    (/\ hl = "returned"
     /\ ops # << >>
     /\ OnlyDisposals
     /\ DistinctCallbacks(startSubs))
    => /\ \A r \in Regs(startSubs) : CallsTo(r) <= 1
       /\ \A r \in Regs(startSubs) \cap Regs(subscribers) : CallsTo(r) = 1

\* a callback disposes the handle of the registration it is being called for
OwnDisposal(op) ==
    /\ op.kind = "dispose"
    /\ op.h = op.by
    /\ op.removed = op.by.reg

OnlyOwnDisposals ==
    /\ hl = "returned"
    /\ ops # << >>
    /\ \A k \in 1..Len(ops) : OwnDisposal(ops[k])

\* C5: when observers dispose their own handle inside their own callback,
\* handleLine raises no error, the disposing observers are no longer
\* registered, every other observer registered for the line is notified
\* once and stays registered; a registration that has been removed never
\* comes back and is never notified again.
C5_SelfDispose ==
    /\ [](OnlyOwnDisposals =>
            /\ threw = "no"
            /\ \A k \in 1..Len(ops) : ops[k].by.reg \notin Regs(subscribers)
            /\ \A k \in 1..Len(startSubs) :
                  (\A j \in 1..Len(ops) : ops[j].by # startSubs[k])
                  => /\ CallsTo(startSubs[k].reg) = 1
                     /\ \/ startSubs[k].reg \in Regs(subscribers)
                        \/ /\ startSubs[k] = ReadyEntry
                           /\ envelope.eventType = KernelReadyType)
    /\ [][\A r \in 0..MaxRegs :
             (pc = "spawned" /\ r < nextReg /\ r \notin Regs(subscribers))
             => /\ r \notin Regs(subscribers')
                /\ Len(calls') > Len(calls) => calls'[Len(calls')].reg # r]_vars

\* C5 witness: an observer disposed its own handle while another observer
\* was registered after it and one before it
C5_Witness ==
    /\ OnlyOwnDisposals
    /\ Len(startSubs) = 3
    /\ ops[1].by = startSubs[2]

\* C6 as stated: disposing a handle removes exactly the registration the
\* handle was created for, and nothing when that registration is already
\* gone.
C6_ExactRegistration ==
    \A k \in 1..Len(ops) :
        ops[k].kind = "dispose"
        => IF ops[k].present THEN ops[k].removed = ops[k].h.reg
                             ELSE ops[k].removed = -1

----------------------------------------------------------------------------
(* Properties of argument negotiation, read in the state where             *)
(* configureHttpArgs has returned (pc = "configured").                     *)

Occurrences(arr, x) == {k \in 1..Len(arr) : arr[k] = x}

\* s is the decimal numeral of a port number
IsNumeral(s) == \E n \in 0..99 \cup FreePorts : s = NumberToString(n)

\* the first --http-port of the list is followed by a decimal numeral
FirstPortHasNumber(arr) ==
    \E k \in 1..(Len(arr) - 1) :
        /\ arr[k] = HttpPortFlag
        /\ \A j \in 1..(k - 1) : arr[j] # HttpPortFlag
        /\ IsNumeral(arr[k + 1])

\* the list holds exactly one --http-port, a token follows it, and httpPort
\* is the number that token spells
OnePortPair(arr) ==
    /\ Cardinality(Occurrences(arr, HttpPortFlag)) = 1
    /\ LET k == CHOOSE j \in 1..Len(arr) : arr[j] = HttpPortFlag
       IN /\ k < Len(arr)
          /\ httpPort # NaN
          /\ arr[k + 1] = NumberToString(httpPort.num)

\* C7 as stated: after configureHttpArgs, for every input list, the result
\* holds exactly one --http-port followed by a value and httpPort equals it.
C7_Original == pc = "configured" => OnePortPair(newArgs)

\* the input lists for which the guarantee of C7 can hold: no --http-port at
\* all, or exactly one and it is followed by a decimal numeral
WellFormedPortArgs(arr) ==
    \/ Occurrences(arr, HttpPortFlag) = {}
    \/ /\ Cardinality(Occurrences(arr, HttpPortFlag)) = 1
       /\ FirstPortHasNumber(arr)

\* C7 amended: for every input list with no --http-port, or with exactly one
\* --http-port that is followed by a decimal number, the result of
\* configureHttpArgs holds exactly one --http-port followed by a value and
\* httpPort equals that value.
C7_OnePortPair ==
    (pc = "configured" /\ WellFormedPortArgs(args)) => OnePortPair(newArgs)

\* C7 witness: the in-place rewrite of a deprecated flag has completed
C7_Witness ==
    /\ pc = "configured"
    /\ IndexOf(args, HttpPortFlag) < 0
    /\ IndexOf(args, HttpPortRangeFlag) > 0
    /\ OnePortPair(newArgs)

\* C8 as stated: with --http-port-range at any index (0 included) and no
\* --http-port, the flag and the token after it are replaced in place by
\* --http-port and the allocated port, httpPort is that port, every other
\* position is unchanged and exactly one deprecation line is logged.
C8_ReplaceInPlace ==
    (/\ pc = "configured"
     /\ IndexOf(args, HttpPortFlag) < 0
     /\ IndexOf(args, HttpPortRangeFlag) >= 0)
    => LET r == IndexOf(args, HttpPortRangeFlag)
       IN /\ port # Undefined
          /\ httpPort = port
          /\ newArgs = ArrSet(ArrSet(args, r, HttpPortFlag), r + 1,
                              NumberToString(port.num))
          /\ diag = <<DeprecationLine>>

\* C9: with neither --http-port nor --http-port-range in the input, the
\* result is the input followed by exactly --http-port and the allocated
\* port n, httpPort is n, and no deprecation line is logged.
C9_AppendPair ==
    (/\ pc = "configured"
     /\ IndexOf(args, HttpPortFlag) < 0
     /\ IndexOf(args, HttpPortRangeFlag) < 0)
    => /\ port # Undefined
       /\ port.num \in FreePorts
       /\ httpPort = port
       /\ Len(newArgs) = Len(args) + 2
       /\ SubSeq(newArgs, 1, Len(args)) = args
       /\ newArgs[Len(args) + 1] = HttpPortFlag
       /\ newArgs[Len(args) + 2] = NumberToString(port.num)
       /\ diag = << >>

\* C9 witness: a non-empty list without port flags has been negotiated
C9_Witness ==
    /\ pc = "configured"
    /\ args = <<VerboseFlag>>
    /\ newArgs = <<VerboseFlag, HttpPortFlag, NumberToString(port.num)>>

\* C10: when the first --http-port of the input is followed by a number n,
\* configureHttpArgs allocates no port, returns a list equal to the input
\* (also when --http-port-range is present), logs nothing and sets httpPort
\* to n.
C10_ExplicitPortFrame ==
    (pc = "configured" /\ FirstPortHasNumber(args))
    => /\ port = Undefined
       /\ newArgs = args
       /\ diag = << >>
       /\ httpPort # NaN
       /\ \E k \in 1..(Len(args) - 1) :
             /\ args[k] = HttpPortFlag
             /\ \A j \in 1..(k - 1) : args[j] # HttpPortFlag
             /\ args[k + 1] = NumberToString(httpPort.num)

\* C10 witness: an explicit port was given together with the deprecated flag
C10_Witness ==
    /\ pc = "configured"
    /\ args = <<HttpPortRangeFlag, HttpPortFlag, <<"8","0">>>>
    /\ httpPort = Num(80)


----------------------------------------------------------------------------
(* Commands, disposal, exit and failed start-up (SpecLife)                 *)

\* ghost: this step is a call of the interface operation op
Calls(op) == api' # api /\ api'.op = op

\* the wire text of each command of Commands, written out
CommandLine(cmd) ==
    IF cmd.token = "tok-1"
    THEN "{\"token\":\"tok-1\",\"commandType\":\"Submit\",\"command\":{}}"
    ELSE "{\"token\":\"tok-2\",\"commandType\":\"Submit\",\"command\":{\"code\":\"1\"}}"

\* C11: whenever a process handle exists (ready or not, exited or disposed
\* or not), submitCommand resolves and adds to stdin exactly the command's
\* serialized line and then one newline, after everything written by
\* earlier calls; stdin is at all times the resolved commands in call order.
C11_SubmitWrites ==
    /\ [](/\ Len(stdin) = 2 * Len(submitted)
          /\ \A k \in 1..Len(submitted) :
                /\ stdin[2 * k - 1] = CommandLine(submitted[k])
                /\ stdin[2 * k] = "\n")
    /\ [][(Calls("submitCommand") /\ childProcess # Null) =>
            /\ api'.result = "resolved"
            /\ Len(submitted') = Len(submitted) + 1
            /\ SubSeq(stdin', 1, Len(stdin)) = stdin
            /\ Len(stdin') = Len(stdin) + 2]_vars

\* two different commands were written, the later one after the process
\* had exited and before readiness
C11_Witness ==
    /\ api # Null /\ api.op = "submitCommand" /\ api.result = "resolved"
    /\ Len(submitted) = 2
    /\ submitted[1].token = "tok-2" /\ submitted[2].token = "tok-1"
    /\ exit # Null /\ childProcess.killed
    /\ readyPromise = "pending"

\* C12: submitCommand called while no process handle is present rejects
\* with no reason value, writes nothing and changes no state.
C12_RejectsBare ==
    [][(Calls("submitCommand") /\ childProcess = Null) =>
         /\ api'.result = "rejected"
         /\ api'.reason = Undefined
         /\ UNCHANGED <<startupVars, subscribers, handles, nextReg, readyVars,
                        lineVars, stdin, submitted, exit>>]_vars

\* C13: dispose() raises no error, and called while the handle is absent it
\* changes no state.
C13_DisposeQuiet ==
    [][Calls("dispose") =>
         /\ api'.result = "returned"
         /\ childProcess = Null =>
               UNCHANGED <<startupVars, subscribers, handles, nextReg, readyVars,
                           lineVars, stdin, submitted, exit>>]_vars

\* C14: handling a diagnostic-log line appends its message to the sink once
\* and calls every registered observer once with that envelope; a line of
\* any other type appends nothing, and the loop itself appends nothing.
C14_DiagnosticLine ==
    /\ []((hl = "returned" /\ threw = "no" /\ envelope # Undefined) =>
            (envelope.eventType = DiagnosticLogEntryProducedType =>
               /\ Len(calls) = Len(startSubs)
               /\ \A k \in 1..Len(startSubs) : CallsTo(startSubs[k].reg) = 1
               /\ \A k \in 1..Len(calls) : calls[k].env = envelope))
    /\ [][/\ (hl = "idle" /\ hl' # "idle" /\ threw' = "no") =>
                diag' = IF envelope'.eventType = DiagnosticLogEntryProducedType
                        THEN Append(diag, <<"boot ok">>)
                        ELSE diag
          /\ hl # "idle" => diag' = diag]_vars

C14_Witness ==
    /\ hl = "returned" /\ threw = "no" /\ envelope # Undefined
    /\ envelope.eventType = DiagnosticLogEntryProducedType
    /\ Len(startSubs) = 2 /\ Len(calls) = 2
    /\ diag[Len(diag)] = <<"boot ok">>

\* C15 as stated: once the subprocess has exited before any ready envelope
\* was processed, the readiness future is pending in every later state.
C15_Original ==
    (exit # Null /\ ~exit.ready) => readyPromise = "pending"

\* C15: the exit handler appends one line, naming the pid and the code or
\* signal, and changes nothing else: observer set, handle and readiness are
\* as before and no observer is called; after an exit before readiness the
\* future is pending until a ready envelope is processed.
C15_ExitOnlyLogs ==
    /\ [][(exit = Null /\ exit' # Null) =>
            /\ diag' = Append(diag,
                  <<"Kernel pid ", childProcess.pid, " ended",
                    IF exit'.code = Num(1) THEN <<" with code ", 1>> ELSE << >>,
                    IF exit'.signal = Str("SIGTERM")
                    THEN <<" with signal ", "SIGTERM">> ELSE << >> >>)
            /\ UNCHANGED <<pc, args, newArgs, index, port, httpPort, childProcess,
                           subscribers, handles, nextReg, readyVars, lineVars,
                           stdin, submitted, api>>]_vars
    /\ []((exit # Null /\ ~readySeen) =>
            (readyPromise = "pending" /\ resolveCalls = 0))

\* the process ended with code 1 before readiness, with two observers set
C15_Witness ==
    /\ exit # Null /\ ~exit.ready /\ exit.code = Num(1)
    /\ Len(subscribers) = 2 /\ HasReady(subscribers)
    /\ readyPromise = "pending"

\* ghost: the sink holds a "Kernel started" line
StartedLogged == \E k \in 1..Len(diag) : diag[k][1] = "Kernel started with pid "

\* C16: after a failed port probe the process is never spawned: the handle
\* stays absent, no readiness listener is registered, no line, exit or
\* stderr event is handled, and the readiness future is never resolved.
C16_FailedStartup ==
    /\ [](pc = "failed" =>
            /\ childProcess = Null
            /\ ~HasReady(subscribers)
            /\ ~StartedLogged
            /\ hl = "idle" /\ calls = << >> /\ exit = Null
            /\ readyPromise = "pending" /\ resolveCalls = 0)
    /\ [][pc = "failed" => pc' = "failed"]_vars

\* the probe failed, and an observer was registered and the interface called
C16_Witness ==
    /\ pc = "failed"
    /\ Len(subscribers) = 1
    /\ api # Null /\ api.op = "dispose"

\* C17: dispose() changes nothing but the signal it sends: the observer set
\* is as before, the handle stays in place, readiness is neither resolved
\* nor rejected, and sink, stdin and port are untouched.
C17_DisposeFrame ==
    [][Calls("dispose") =>
         /\ UNCHANGED <<pc, args, newArgs, index, port, httpPort, diag, subscribers,
                        handles, nextReg, readyVars, lineVars, stdin, submitted, exit>>
         /\ IF childProcess = Null
            THEN childProcess' = Null
            ELSE /\ childProcess' # Null
                 /\ childProcess'.pid = childProcess.pid
                 /\ exit = Null => childProcess'.killed]_vars

\* dispose() was called on a live process before readiness, with the
\* readiness listener and a client observer registered
C17_Witness ==
    /\ api # Null /\ api.op = "dispose" /\ api.result = "returned"
    /\ childProcess # Null /\ childProcess.killed
    /\ Len(subscribers) = 2 /\ HasReady(subscribers)
    /\ readyPromise = "pending"

----------------------------------------------------------------------------
(* Malformed lines and the order of delivery (Spec)                        *)

C19_DeliveryOrder ==
    /\ [][(hl' # "idle" /\ envelope' # envelope) => hl = "idle"]_vars
    /\ [](hl # "idle" => \A k \in 1..Len(calls) : calls[k].env = envelope)
    /\ []((hl # "idle" /\ ops = << >>) =>
            /\ Len(calls) <= Len(startSubs)
            /\ \A k \in 1..Len(calls) :
                  calls[k].reg = startSubs[Len(startSubs) - k + 1].reg)
    /\ []((hl = "returned" /\ threw = "no" /\ ops = << >>) =>
            Len(calls) = Len(startSubs))

\* three observers were called, last registered first
C19_Witness ==
    /\ hl = "returned" /\ threw = "no" /\ ops = << >>
    /\ Len(startSubs) = 3 /\ Len(calls) = 3
    /\ calls[1].reg = startSubs[3].reg /\ calls[3].reg = startSubs[1].reg
    /\ startSubs[1].reg # startSubs[3].reg

\* ghost: every operation of the callbacks of this line is a registration
OnlySubscribes == \A k \in 1..Len(ops) : ops[k].kind = "subscribe"

\* C20: an observer registered inside a callback is not called for the
\* envelope in delivery (stated for lines that start with every callback
\* registered once), and a line whose callbacks only register calls
\* every observer that was registered before it exactly once.
C20_NewObserverWaits ==
    /\ DistinctCallbacks(startSubs) =>
          \A k \in 1..Len(ops) :
             ops[k].kind = "subscribe" => CallsTo(ops[k].h.reg) = 0
    /\ (hl = "returned" /\ threw = "no" /\ OnlySubscribes) =>
          \A k \in 1..Len(startSubs) : CallsTo(startSubs[k].reg) = 1

====
